---------------------------- MODULE Spec2Model ----------------------------
(***************************************************************************)
(* A model of the GdmLiveAudio component of src/index.tsx (the second,     *)
(* later definition of the class, lines 453-903): the session lifecycle    *)
(* (initClient, initSession and the transport callbacks), the playback     *)
(* scheduling done by onmessage, the interruption branch, the capture      *)
(* path (startRecording, onaudioprocess, stopRecording) and reset().       *)
(*                                                                         *)
(* JavaScript runs each handler to its next await without interleaving, so *)
(* every action below is one such run: the synchronous prefix of a handler *)
(* or the continuation that follows one await.                             *)
(*                                                                         *)
(* Time is counted in whole ticks of the output context's clock and buffer *)
(* durations in the same unit.                                             *)
(***************************************************************************)
EXTENDS Integers, FiniteSets, Sequences, TLC

(* ------------------------------ bounds -------------------------------- *)

\* the output clock is observed at 0..MaxTime
MaxTime == 1
\* a decoded buffer lasts 1..MaxDur ticks
MaxDur == 2
\* inbound messages delivered in one run
MaxMsgs == 2
\* reset() calls in one run
MaxResets == 2
\* startRecording() invocations in one run
MaxStarts == 2
\* frames for which sendRealtimeInput is called in one run
MaxFrames == 1
\* failures of the environment in one run: a transport error, a close by the
\* server, a rejected connect, resume or getUserMedia, a send that throws
MaxFaults == 1
\* inbound chunks whose decode fails in one run
MaxCorrupt == 1

(* ----------------------------- variables ------------------------------ *)

VARIABLES
    \* fields of GdmLiveAudio
    isRecording, status, error, isSessionInitialized,
    client, session, nextStartTime,
    mediaStream, sourceNode, scriptProcessorNode, sources,
    \* the environment the component runs in
    apiKey,          \* process.env.API_KEY is set
    currentTime,     \* outputAudioContext.currentTime
    outputState,     \* outputAudioContext.state
    inputState,      \* inputAudioContext.state
    transports,      \* transport id -> state of the connection made by connect
    connects,        \* transport id -> state of the promise connect returned
    timers,          \* setTimeout callbacks of reset() not yet run
    arrivals,        \* message id -> the transport whose onmessage delivered it
    handlers,        \* message id -> the onmessage invocation suspended at an await
    nodes,           \* message id -> the AudioBufferSourceNode created for it
    recordings,      \* invocation id -> the startRecording invocation at an await
    tracks,          \* microphone streams acquired and not stopped
    processors,      \* script processors connected with onaudioprocess attached
    \* the bound of the run and history
    cap,             \* how many stimuli of each kind this run may use
    used,            \* how many it has used
    gen,             \* interrupted signals handled so far
    rst,             \* reset() calls and initAudio() runs so far
    errPending,      \* the open session errored during capture, and no
                     \* transport created by reset() has opened since
    replaced,        \* transports that existed when reset() was last called
    left,            \* a transport made since the last reset() has errored,
                     \* been closed by the server or failed to connect
    sendFailed,      \* 0, or, when sendRealtimeInput has thrown since the last
                     \* reset(), the first startRecording() invocation after it
    stopped          \* stopRecording() has returned and startRecording() has
                     \* not been invoked since

vars == <<isRecording, status, error, isSessionInitialized, client, session,
          nextStartTime, mediaStream, sourceNode, scriptProcessorNode, sources,
          apiKey, currentTime, outputState, inputState, transports, connects,
          timers, arrivals, handlers, nodes, recordings, tracks, processors,
          cap, used, gen, rst, errPending, replaced, left, sendFailed,
          stopped>>

ui == <<status, error>>
capture == <<isRecording, mediaStream, sourceNode, scriptProcessorNode,
             tracks, processors>>
playback == <<nextStartTime, sources, nodes, gen>>
contexts == <<outputState, inputState>>
net == <<transports, connects, timers, client, session>>
env == <<apiKey, cap>>
history == <<rst, errPending, replaced, left, sendFailed, stopped>>
inbound == <<arrivals, handlers>>

Max(a, b) == IF a >= b THEN a ELSE b

\* the step uses one stimulus of a kind, and one failure if it is one
Use(kind, failure) ==
    /\ used[kind] < cap[kind]
    /\ failure => used.faults < cap.faults
    /\ used' = [used EXCEPT ![kind] = @ + 1,
                            !.faults = IF failure THEN @ + 1 ELSE @]

\* the step uses no stimulus, and one failure if it is one
Fail(failure) ==
    /\ failure => used.faults < cap.faults
    /\ used' = [used EXCEPT !.faults = IF failure THEN @ + 1 ELSE @]

\* the step settles a decode, which fails if the chunk is corrupt
Decode(corrupt) ==
    /\ corrupt => used.corrupt < cap.corrupt
    /\ used' = [used EXCEPT !.corrupt = IF corrupt THEN @ + 1 ELSE @]

\* calls of sendRealtimeInput made so far
sent == used.frames

\* calls of reset() made so far
resets == used.resets

(* ------------------------ updateStatus / updateError ------------------ *)

UpdateStatus(msg) ==
    /\ status' = msg
    /\ error' = ""

\* an updateError that leaves the status as it is
UpdateErrorKeepingStatus(msg) ==
    /\ error' = msg
    /\ status' = status

UpdateError(msg) ==
    /\ error' = msg
    /\ status' = ""

\* what render() displays: ${this.error || this.status}
Displayed == IF error # "" THEN error ELSE status

(* ------------------------------- Init ---------------------------------- *)

\* The runs explored: each kind of run bounds how many inbound messages,
\* reset() calls, startRecording() invocations, sent frames and failures it
\* uses.
\* no button is clicked: the component listens to its transport
ListeningProfiles ==
    { \* audio arrives, and some chunks are corrupt
      [msgs |-> MaxMsgs, resets |-> 0, starts |-> 0, frames |-> 0, faults |-> 0,
       corrupt |-> MaxCorrupt],
      \* the transport or the audio context fails
      [msgs |-> MaxMsgs - 1, resets |-> 0, starts |-> 0, frames |-> 0,
       faults |-> MaxFaults, corrupt |-> 0] }

\* the buttons are clicked as well
Profiles ==
    ListeningProfiles \cup
    { \* a reset while audio arrives
      [msgs |-> MaxMsgs - 1, resets |-> MaxResets - 1, starts |-> 0,
       frames |-> 0, faults |-> 0, corrupt |-> 0],
      \* a capture and a reset
      [msgs |-> 0, resets |-> MaxResets - 1, starts |-> MaxStarts - 1,
       frames |-> MaxFrames, faults |-> MaxFaults, corrupt |-> 0],
      \* repeated starts of the capture
      [msgs |-> 0, resets |-> 0, starts |-> MaxStarts, frames |-> MaxFrames,
       faults |-> MaxFaults, corrupt |-> 0],
      \* repeated resets
      [msgs |-> 0, resets |-> MaxResets, starts |-> 0, frames |-> 0,
       faults |-> 0, corrupt |-> 0] }

\* The state once the constructor has run: initClient() has run initAudio()
\* at clock 0 and, with a key, the synchronous prefix of initSession() up to
\* "await this.client.live.connect(...)".
Constructed ==
    /\ used = [msgs |-> 0, resets |-> 0, starts |-> 0, frames |-> 0, faults |-> 0,
               corrupt |-> 0]
    /\ apiKey \in BOOLEAN
    /\ currentTime = 0
    /\ outputState \in {"suspended", "running"}
    /\ inputState = outputState
    /\ isRecording = FALSE
    /\ isSessionInitialized = FALSE
    /\ nextStartTime = 0
    /\ session = 0
    /\ mediaStream = 0
    /\ sourceNode = 0
    /\ scriptProcessorNode = 0
    /\ sources = {}
    /\ client = apiKey
    /\ status = IF apiKey THEN "Initializing session with Gemini..." ELSE ""
    /\ error = IF apiKey THEN "" ELSE "Error: API_KEY is not available."
    /\ transports = IF apiKey THEN <<"connecting">> ELSE <<>>
    /\ connects = IF apiKey THEN <<"pending">> ELSE <<>>
    /\ timers = 0
    /\ arrivals = <<>>
    /\ handlers = <<>>
    /\ nodes = <<>>
    /\ recordings = <<>>
    /\ tracks = {}
    /\ processors = {}
    /\ gen = 0
    /\ rst = 0
    /\ errPending = FALSE
    /\ replaced = {}
    /\ left = FALSE
    /\ sendFailed = 0
    /\ stopped = FALSE

Init ==
    /\ cap \in Profiles
    /\ Constructed

InitListening ==
    /\ cap \in ListeningProfiles
    /\ Constructed

(* ------------------------------ the clock ------------------------------ *)

\* outputAudioContext.currentTime advances between any two handler runs
Tick ==
    /\ currentTime < MaxTime
    /\ currentTime' = currentTime + 1
    /\ UNCHANGED <<ui, isSessionInitialized, capture, playback, contexts, net,
                   env, used, history, inbound, recordings>>

\* the clock beyond the times at which it is observed, while a source that
\* has been started has not played out
PlayOut ==
    /\ currentTime >= MaxTime
    /\ \E s \in sources : currentTime < Max(nodes[s].start, nodes[s].clk) + nodes[s].dur
    /\ currentTime' = currentTime + 1
    /\ UNCHANGED <<ui, isSessionInitialized, capture, playback, contexts, net,
                   env, used, history, inbound, recordings>>

(* ----------------------- initClient / initSession ---------------------- *)

\* initAudio(): this.nextStartTime = this.outputAudioContext.currentTime
InitAudio(clock) == clock

\* The setTimeout callback of reset(): initClient(), and within it the
\* synchronous prefix of initSession() up to the await of connect().
InitClient ==
    /\ timers > 0
    /\ timers' = timers - 1
    /\ nextStartTime' = InitAudio(currentTime)
    /\ rst' = rst + 1
    /\ isSessionInitialized' = FALSE
    /\ IF ~apiKey
       THEN /\ UpdateError("Error: API_KEY is not available.")
            /\ UNCHANGED <<client, transports, connects>>
       ELSE /\ client' = TRUE
            /\ UpdateStatus("Initializing session with Gemini...")
            /\ transports' = Append(transports, "connecting")
            /\ connects' = Append(connects, "pending")
    /\ UNCHANGED <<capture, sources, nodes, gen, contexts, session, env, used,
                   errPending, replaced, left, sendFailed, stopped, currentTime,
                   inbound, recordings>>

\* "this.session = await this.client.live.connect(...)" resumes with a Session
ConnectResolved(t) ==
    /\ connects[t] = "pending"
    /\ transports[t] \in {"connecting", "open"}
    /\ connects' = [connects EXCEPT ![t] = "resolved"]
    /\ session' = t
    /\ UNCHANGED <<ui, isSessionInitialized, capture, playback, contexts,
                   transports, timers, client, env, used, history, currentTime,
                   inbound, recordings>>

\* a catch block that calls initSession() again
ConnectRejectedRetrying(t) ==
    /\ connects[t] = "pending"
    /\ transports[t] = "connecting"
    /\ Fail(TRUE)
    /\ connects' = Append([connects EXCEPT ![t] = "rejected"], "pending")
    /\ transports' = Append([transports EXCEPT ![t] = "closed"], "connecting")
    /\ UpdateStatus("Initializing session with Gemini...")
    /\ isSessionInitialized' = FALSE
    /\ left' = (left \/ t \notin replaced)
    /\ UNCHANGED <<capture, playback, contexts, timers, client, session, env,
                   rst, errPending, replaced, sendFailed, stopped, currentTime,
                   inbound, recordings>>

\* connect() rejects: the catch block of initSession()
ConnectRejected(t) ==
    /\ connects[t] = "pending"
    /\ transports[t] = "connecting"
    /\ Fail(TRUE)
    /\ connects' = [connects EXCEPT ![t] = "rejected"]
    /\ transports' = [transports EXCEPT ![t] = "closed"]
    /\ UpdateError("Error: Failed to initialize session")
    /\ isSessionInitialized' = FALSE
    /\ left' = (left \/ t \notin replaced)
    /\ UNCHANGED <<capture, playback, contexts, timers, client, session, env,
                   rst, errPending, replaced, sendFailed, stopped, currentTime,
                   inbound, recordings>>

(* ------------------------- transport callbacks ------------------------- *)

\* callbacks.onopen
OnOpen(t) ==
    /\ transports[t] = "connecting"
    /\ transports' = [transports EXCEPT ![t] = "open"]
    /\ UpdateStatus("Connection Opened. Session is active.")
    /\ isSessionInitialized' = TRUE
    /\ errPending' = (errPending /\ t = 1)
    /\ UNCHANGED <<capture, playback, contexts, connects, timers, client, session,
                   env, used, rst, replaced, left, sendFailed, stopped,
                   currentTime, inbound, recordings>>

\* callbacks.onerror
OnError(t) ==
    /\ transports[t] \in {"connecting", "open"}
    /\ Fail(TRUE)
    /\ transports' = [transports EXCEPT ![t] = "errored"]
    /\ UpdateError("Error: Session error")
    /\ isSessionInitialized' = FALSE
    /\ errPending' = (errPending \/ (transports[t] = "open" /\ isRecording
                                      /\ session = t))
    /\ left' = (left \/ t \notin replaced)
    /\ UNCHANGED <<capture, playback, contexts, connects, timers, client, session,
                   env, rst, replaced, sendFailed, stopped, currentTime, inbound,
                   recordings>>

\* callbacks.onclose: the server closes an open connection, or the close
\* follows an error or the close() of reset()
OnClose(t) ==
    /\ transports[t] \in {"open", "errored", "closing"}
    /\ Fail(transports[t] = "open")
    /\ transports' = [transports EXCEPT ![t] = "closed"]
    /\ UpdateStatus("Connection Closed")
    /\ isSessionInitialized' = FALSE
    /\ left' = (left \/ (transports[t] = "open" /\ t \notin replaced))
    /\ UNCHANGED <<capture, playback, contexts, connects, timers, client, session,
                   env, rst, errPending, replaced, sendFailed, stopped,
                   currentTime, inbound, recordings>>

(* ------------------------------ onmessage ------------------------------ *)

\* a cursor that is set to the clock whatever it holds
StartCursorAtClock(cursor, clock) == clock

\* this.nextStartTime = Math.max(this.nextStartTime, currentTime), which
\* runs before the decode is awaited
StartCursor(cursor, clock) == Max(cursor, clock)

\* a cursor that is not advanced past the buffer just started
AdvanceCursorNot(cursor, duration) == cursor

\* this.nextStartTime = this.nextStartTime + audioBuffer.duration
AdvanceCursor(cursor, duration) == cursor + duration

\* what decodeAudioData settles with: a buffer of some duration, or (0) an error
DecodeOutcomes == 0..MaxDur

\* a loop that misses the entry following each one it deletes, as one over
\* an array that is spliced while it is iterated would
InterruptTargetsSkipping(active) ==
    {s \in active : Cardinality({o \in active : o < s}) % 2 = 0}

\* a loop over every source ever created instead of the active ones
InterruptTargetsAll(active) == DOMAIN nodes

\* the sources the loop "for (const source of this.sources.values())" visits:
\* deleting the visited entry of a Set does not make the iteration skip any
InterruptTargets(active) == active

\* source.stop() on every visited source, on behalf of message m
Cancelled(ns, active, m) ==
    [s \in DOMAIN ns |->
        IF s \in InterruptTargets(active)
        THEN [ns[s] EXCEPT !.st = "stopped", !.stops = @ + 1, !.by = m]
        ELSE ns[s]]

\* the cancellation and cursor reset run without the test of the signal
InterruptedBranchAlways(m, intr, ns, active, cursor) ==
    /\ nodes' = Cancelled(ns, active, m)
    /\ sources' = active \ InterruptTargets(active)
    /\ nextStartTime' = 0
    /\ gen' = gen + 1

\* The end of onmessage: "if (interrupted) { stop and delete every source;
\* this.nextStartTime = 0 }", applied to the node table ns, the active set
\* and the cursor that the earlier part of the same run has produced.
InterruptedBranch(m, intr, ns, active, cursor) ==
    IF intr
    THEN /\ nodes' = Cancelled(ns, active, m)
         /\ sources' = active \ InterruptTargets(active)
         /\ nextStartTime' = 0
         /\ gen' = gen + 1
    ELSE /\ nodes' = ns
         /\ sources' = active
         /\ nextStartTime' = cursor
         /\ gen' = gen

\* the AudioBufferSourceNode created once the decode of message m has
\* yielded a buffer of duration d: source.start(this.nextStartTime)
NewNode(m, d) ==
    [start |-> nextStartTime, dur |-> d, clk |-> currentTime,
     st |-> "playing", ended |-> FALSE, stops |-> 0, by |-> 0,
     k |-> Cardinality(DOMAIN nodes), gen |-> gen, genAt |-> handlers[m].genAt,
     rst |-> rst, err |-> error]

\* callbacks.onmessage, up to its first await or, with no audio part, to its end
OnMessage(t, audio, intr) ==
    /\ transports[t] \in {"open", "closing"}
    /\ Use("msgs", FALSE)
    /\ arrivals' = Append(arrivals, t)
    /\ IF audio /\ outputState = "suspended"
       THEN \* await this.outputAudioContext.resume()
            /\ handlers' = handlers @@ (used.msgs + 1 :>
                   [intr |-> intr, pc |-> "resume", genAt |-> gen])
            /\ UNCHANGED playback
       ELSE IF audio
       THEN \* the context is running: await decodeAudioData(...)
            /\ handlers' = handlers @@ (used.msgs + 1 :>
                   [intr |-> intr, pc |-> "decode", genAt |-> gen])
            /\ nextStartTime' = StartCursor(nextStartTime, currentTime)
            /\ UNCHANGED <<sources, nodes, gen>>
       ELSE /\ InterruptedBranch(used.msgs + 1, intr, nodes, sources, nextStartTime)
            /\ UNCHANGED handlers
    /\ UNCHANGED <<ui, isSessionInitialized, capture, contexts, net, env, history,
                   currentTime, recordings>>

\* the handlers awaiting outputAudioContext.resume() continue in call order
FirstResuming(m) ==
    /\ m \in DOMAIN handlers
    /\ handlers[m].pc = "resume"
    /\ \A o \in DOMAIN handlers : handlers[o].pc = "resume" => m <= o

\* onmessage after "await this.outputAudioContext.resume().catch(...)":
\* resume() fulfils and the context runs, or it rejects and the context stays
\* suspended: the .catch reports it, and then the else branch of the state test.
MessageResumed(m, ok) ==
    /\ FirstResuming(m)
    /\ ~ok => outputState = "suspended"
    /\ Fail(~ok)
    /\ IF ok
       THEN /\ outputState' = "running"
            /\ handlers' = [handlers EXCEPT ![m].pc = "decode", ![m].genAt = gen]
            /\ nextStartTime' = StartCursor(nextStartTime, currentTime)
            /\ UNCHANGED <<sources, nodes, gen, ui>>
       ELSE /\ outputState' = outputState
            /\ handlers' = [o \in DOMAIN handlers \ {m} |-> handlers[o]]
            /\ UpdateError("Error: Audio output context is not active.")
            /\ InterruptedBranch(m, handlers[m].intr, nodes, sources, nextStartTime)
    /\ UNCHANGED <<isSessionInitialized, capture, inputState, net, env, history,
                   currentTime, arrivals, recordings>>

\* onmessage after "await decodeAudioData(...)": d = 0 is a decode error
MessageDecoded(m, d) ==
    /\ m \in DOMAIN handlers
    /\ handlers[m].pc = "decode"
    /\ Decode(d = 0)
    /\ handlers' = [o \in DOMAIN handlers \ {m} |-> handlers[o]]
    /\ IF d > 0
       THEN /\ InterruptedBranch(m, handlers[m].intr,
                                 nodes @@ (m :> NewNode(m, d)),
                                 sources \cup {m},
                                 AdvanceCursor(nextStartTime, d))
            /\ UNCHANGED ui
       ELSE /\ InterruptedBranch(m, handlers[m].intr, nodes, sources, nextStartTime)
            /\ UpdateError("Error: Error processing received audio")
    /\ UNCHANGED <<isSessionInitialized, capture, contexts, net, env, history,
                   currentTime, arrivals, recordings>>

\* when the source of node s stops playing: a start time in the past plays at once
PlaybackEnd(s) == Max(nodes[s].start, nodes[s].clk) + nodes[s].dur

\* a listener that removes the oldest entry of the set
DeleteOldest(active, s) == {o \in active : \E q \in active : q < o}

\* a listener that removes nothing
DeleteSourceNot(active, s) == active

\* this.sources.delete(source): removing an absent entry changes nothing
DeleteSource(active, s) == active \ {s}

\* the 'ended' listener of a source: this.sources.delete(source). The event
\* is dispatched once, when the buffer has played out or after stop().
SourceEnded(s) ==
    /\ s \in DOMAIN nodes
    /\ ~nodes[s].ended
    /\ nodes[s].st = "stopped" \/ currentTime >= PlaybackEnd(s)
    /\ nodes' = [nodes EXCEPT ![s].ended = TRUE,
                              ![s].st = IF @ = "playing" THEN "finished" ELSE @]
    /\ sources' = DeleteSource(sources, s)
    /\ UNCHANGED <<ui, isSessionInitialized, capture, nextStartTime, gen, contexts,
                   net, env, used, history, currentTime, inbound, recordings>>

(* ------------------------------- capture ------------------------------- *)

\* a stopRecording() that releases the pipeline and leaves isRecording set
StopRecordingKeepingFlag(s, e) ==
    IF ~isRecording /\ mediaStream = 0 /\ scriptProcessorNode = 0
    THEN /\ isRecording' = FALSE
         /\ status' = s
         /\ error' = e
         /\ UNCHANGED <<mediaStream, sourceNode, scriptProcessorNode, tracks,
                        processors>>
    ELSE /\ isRecording' = isRecording
         /\ processors' = processors \ {scriptProcessorNode}
         /\ scriptProcessorNode' = 0
         /\ sourceNode' = 0
         /\ tracks' = tracks \ {mediaStream}
         /\ mediaStream' = 0
         /\ UpdateStatus("Recording stopped. Ready to start again if session is active.")

\* stopRecording(), called when the status and error fields hold s and e
StopRecording(s, e) ==
    IF ~isRecording /\ mediaStream = 0 /\ scriptProcessorNode = 0
    THEN /\ isRecording' = FALSE
         /\ status' = s
         /\ error' = e
         /\ UNCHANGED <<mediaStream, sourceNode, scriptProcessorNode, tracks,
                        processors>>
    ELSE /\ isRecording' = FALSE
         /\ processors' = processors \ {scriptProcessorNode}
         /\ scriptProcessorNode' = 0
         /\ sourceNode' = 0
         /\ tracks' = tracks \ {mediaStream}
         /\ mediaStream' = 0
         /\ UpdateStatus("Recording stopped. Ready to start again if session is active.")

\* the startRecording invocations awaiting a resume() continue in call order
FirstAt(r, pc) ==
    /\ r \in DOMAIN recordings
    /\ recordings[r] = pc
    /\ \A o \in DOMAIN recordings : recordings[o] = pc => r <= o

\* startRecording() from "if (this.inputAudioContext.state !== 'running')" on:
\* the invocation r ends with an error, or requests the microphone
RequestMicrophone(r, inState) ==
    IF inState # "running"
    THEN /\ UpdateError("Error: Input audio context could not be started.")
         /\ recordings' = [o \in DOMAIN recordings \ {r} |-> recordings[o]]
    ELSE /\ UpdateStatus("Requesting microphone access...")
         /\ recordings' = [o \in (DOMAIN recordings) \cup {r} |->
                              IF o = r THEN "gum" ELSE recordings[o]]

\* a click on the start button (enabled by render() unless isRecording or
\* !isSessionInitialized): startRecording() up to its first await
StartRecording ==
    /\ ~isRecording /\ isSessionInitialized
    /\ Use("starts", FALSE)
    /\ IF session = 0 \/ ~isSessionInitialized
       THEN /\ UpdateError("Error: Session not initialized or not active.")
            /\ UNCHANGED recordings
       ELSE IF inputState = "suspended"
       THEN /\ recordings' = recordings @@ (used.starts + 1 :> "resumeIn")
            /\ UNCHANGED ui
       ELSE IF outputState = "suspended"
       THEN /\ recordings' = recordings @@ (used.starts + 1 :> "resumeOut")
            /\ UNCHANGED ui
       ELSE RequestMicrophone(used.starts + 1, inputState)
    /\ stopped' = FALSE
    /\ UNCHANGED <<isSessionInitialized, capture, playback, contexts, net, env,
                   rst, errPending, replaced, left, sendFailed, currentTime,
                   inbound>>

\* startRecording() after "await this.inputAudioContext.resume().catch(...)"
RecordingInputResumed(r, ok) ==
    /\ FirstAt(r, "resumeIn")
    /\ ~ok => inputState = "suspended"
    /\ Fail(~ok)
    /\ inputState' = IF ok THEN "running" ELSE inputState
    /\ IF outputState = "suspended"
       THEN /\ recordings' = [recordings EXCEPT ![r] = "resumeOut"]
            /\ IF ok THEN UNCHANGED ui
                     ELSE UpdateError("Error: Could not resume audio input.")
       ELSE RequestMicrophone(r, inputState')
    /\ UNCHANGED <<isSessionInitialized, capture, playback, outputState, net, env,
                   history, currentTime, inbound>>

\* startRecording() after "await this.outputAudioContext.resume().catch(...)"
RecordingOutputResumed(r, ok) ==
    /\ FirstAt(r, "resumeOut")
    /\ ~ok => outputState = "suspended"
    /\ Fail(~ok)
    /\ outputState' = IF ok THEN "running" ELSE outputState
    /\ RequestMicrophone(r, inputState)
    /\ UNCHANGED <<isSessionInitialized, capture, playback, inputState, net, env,
                   history, currentTime, inbound>>

\* startRecording() after "await navigator.mediaDevices.getUserMedia(...)":
\* the capture pipeline is built, or the catch block runs stopRecording()
MicrophoneSettled(r, ok) ==
    /\ r \in DOMAIN recordings
    /\ recordings[r] = "gum"
    /\ Fail(~ok)
    /\ recordings' = [o \in DOMAIN recordings \ {r} |-> recordings[o]]
    /\ IF ok
       THEN /\ mediaStream' = r
            /\ sourceNode' = r
            /\ scriptProcessorNode' = r
            /\ tracks' = tracks \cup {r}
            /\ processors' = processors \cup {r}
            /\ isRecording' = TRUE
            /\ UpdateStatus("Recording... Capturing PCM chunks.")
       ELSE StopRecording("", "Error: Failed to start recording")
    /\ stopped' = (stopped \/ ~ok)
    /\ UNCHANGED <<isSessionInitialized, playback, contexts, net, env, rst,
                   errPending, replaced, left, sendFailed, currentTime, inbound>>

\* onaudioprocess of a connected script processor, for a frame that passes
\* "if (!this.isRecording || !this.session || !this.isSessionInitialized)
\* return": sendRealtimeInput returns, or throws into the catch block. A
\* frame that returns early changes nothing and is a stuttering step.
AudioProcess(p, throws) ==
    /\ p \in processors
    /\ isRecording /\ session # 0 /\ isSessionInitialized
    /\ Use("frames", throws)
    /\ IF throws
       THEN StopRecording("", "Error: Error sending audio. Try resetting.")
       ELSE UNCHANGED <<ui, capture>>
    /\ sendFailed' = IF throws THEN used.starts + 1 ELSE sendFailed
    /\ stopped' = (stopped \/ throws)
    /\ UNCHANGED <<isSessionInitialized, playback, contexts, net, env, rst,
                   errPending, replaced, left, currentTime, inbound, recordings>>

\* a click on the stop button (enabled by render() while isRecording)
StopClicked ==
    /\ isRecording
    /\ StopRecording(status, error)
    /\ stopped' = TRUE
    /\ UNCHANGED <<isSessionInitialized, playback, contexts, net, env, used,
                   rst, errPending, replaced, left, sendFailed, currentTime,
                   inbound, recordings>>

(* -------------------------------- reset -------------------------------- *)

\* this.session.close(): the connection starts closing unless it is over
Closing(ts, t) ==
    IF ts[t] \in {"connecting", "open"} THEN [ts EXCEPT ![t] = "closing"] ELSE ts

\* a reference that is cleared only when close() returns
SessionKeptOnThrow(throws) == IF throws THEN session ELSE 0

\* "try { this.session.close() } catch (e) {...}; this.session = null": the
\* reference is cleared whether close() returns or throws
SessionAfterClose(throws) == 0

\* a click on the reset button (enabled by render() unless isRecording);
\* close() returns, or throws and leaves the connection as it is
Reset(throws) ==
    /\ ~isRecording
    /\ throws => session # 0
    /\ Use("resets", throws)
    /\ isSessionInitialized' = FALSE
    /\ StopRecording("Resetting session...", "")
    /\ transports' = IF session # 0 /\ ~throws
                     THEN Closing(transports, session) ELSE transports
    /\ session' = SessionAfterClose(throws)
    /\ timers' = timers + 1
    /\ rst' = rst + 1
    /\ replaced' = DOMAIN transports
    /\ left' = FALSE
    /\ sendFailed' = 0
    /\ stopped' = TRUE
    /\ UNCHANGED <<playback, contexts, connects, client, env, errPending, currentTime,
                   inbound, recordings>>

(* ------------------------------ the system ----------------------------- *)

Transports == DOMAIN transports

\* what happens while no button is clicked
Listening ==
    \/ Tick
    \/ \E t \in Transports : ConnectResolved(t)
    \/ \E t \in Transports : ConnectRejected(t)
    \/ \E t \in Transports : OnOpen(t)
    \/ \E t \in Transports : OnError(t)
    \/ \E t \in Transports : OnClose(t)
    \/ \E t \in Transports, audio \in BOOLEAN, intr \in BOOLEAN :
          OnMessage(t, audio, intr)
    \/ \E m \in DOMAIN handlers, ok \in BOOLEAN : MessageResumed(m, ok)
    \/ \E m \in DOMAIN handlers, d \in DecodeOutcomes : MessageDecoded(m, d)
    \/ \E s \in DOMAIN nodes : SourceEnded(s)

\* the clicks, and what follows from them
Operating ==
    \/ InitClient
    \/ StartRecording
    \/ \E r \in DOMAIN recordings, ok \in BOOLEAN : RecordingInputResumed(r, ok)
    \/ \E r \in DOMAIN recordings, ok \in BOOLEAN : RecordingOutputResumed(r, ok)
    \/ \E r \in DOMAIN recordings, ok \in BOOLEAN : MicrophoneSettled(r, ok)
    \/ \E p \in processors, throws \in BOOLEAN : AudioProcess(p, throws)
    \/ StopClicked
    \/ \E throws \in BOOLEAN : Reset(throws)

Next == Listening \/ Operating

Spec == Init /\ [][Next]_vars

\* the component while no button is clicked
SpecListening == InitListening /\ [][Listening]_vars

\* The timer of reset() fires: a setTimeout callback is run once its delay
\* has elapsed.
SpecTimers == Spec /\ WF_vars(InitClient)

\* The component while no button is clicked, with the clock running on until
\* the sources that were started have played out. The clock advances, and the
\* 'ended' event of a source that has played out or was stopped is dispatched.
Playing == Listening \/ PlayOut

SpecPlaying ==
    /\ InitListening
    /\ [][Playing]_vars
    /\ WF_vars(Tick)
    /\ WF_vars(PlayOut)
    /\ \A s \in 1..MaxMsgs : WF_vars(SourceEnded(s))

\* The normal duplex scenario: the key is set, the output context runs, and
\* Chunks messages arrive, each with an audio part of ChunkDur ticks (a tick
\* being 0.5 s) and none with the interrupted signal; every decode succeeds.
Chunks == 3

ChunkDur == 1

InitDuplex ==
    /\ cap = [msgs |-> Chunks, resets |-> 0, starts |-> 0, frames |-> 0,
               faults |-> 0, corrupt |-> 0]
    /\ Constructed
    /\ apiKey
    /\ outputState = "running"

Duplex ==
    \/ Tick
    \/ \E t \in Transports : ConnectResolved(t)
    \/ \E t \in Transports : OnOpen(t)
    \/ \E t \in Transports : OnMessage(t, TRUE, FALSE)
    \/ \E m \in DOMAIN handlers : MessageDecoded(m, ChunkDur)
    \/ \E s \in DOMAIN nodes : SourceEnded(s)

SpecDuplex == InitDuplex /\ [][Duplex]_vars

(* ------------------------------ properties ----------------------------- *)

\* two sources scheduled with no interruption and no reset in between
SameEpoch(a, b) ==
    /\ nodes[a].gen = nodes[b].gen
    /\ nodes[a].rst = nodes[b].rst

\* C1: of two sources scheduled with no interruption or reset in between,
\* the later one is started no earlier than the earlier one's start time plus
\* the earlier one's duration, so their intervals do not intersect.
C1_NoOverlap ==
    \A a \in DOMAIN nodes, b \in DOMAIN nodes :
        (SameEpoch(a, b) /\ nodes[a].k < nodes[b].k)
            => nodes[b].start >= nodes[a].start + nodes[a].dur

\* two sources of one epoch whose decodes were in flight together: the
\* message that arrived first was scheduled second
C1_Witness ==
    \E a \in DOMAIN nodes, b \in DOMAIN nodes :
        /\ a < b
        /\ nodes[b].k < nodes[a].k
        /\ SameEpoch(a, b)

\* C2: every source is started at a time that is not in the past.
C2_NotInThePast ==
    \A s \in DOMAIN nodes : nodes[s].start >= nodes[s].clk

\* C3: a chunk whose decode was in flight when an interruption was handled
\* is discarded, so every source is created in the generation in which its
\* decode began.
C3_StaleDecodeDiscarded ==
    \A s \in DOMAIN nodes : nodes[s].gen = nodes[s].genAt

\* C4: the step that handles an interrupted signal stops, exactly once,
\* every source that was or became active, empties the active set and sets
\* nextStartTime to 0.
C4_InterruptionClears ==
    [][gen' # gen =>
          /\ sources' = {}
          /\ nextStartTime' = 0
          /\ \A s \in DOMAIN nodes' :
                (s \in sources \/ s \notin DOMAIN nodes)
                    => /\ nodes'[s].st = "stopped"
                       /\ nodes'[s].stops = 1]_vars

\* two sources stopped by the same interrupted signal
C4_Witness ==
    /\ sources = {}
    /\ nextStartTime = 0
    /\ \E a \in DOMAIN nodes, b \in DOMAIN nodes :
          /\ a # b
          /\ nodes[a].by # 0
          /\ nodes[a].by = nodes[b].by

\* C5: while the handler of a message that carries the interrupted signal
\* has not cancelled and reset, no message that arrived later is handled.
C5_InterruptionFirst ==
    \A m \in DOMAIN handlers : handlers[m].intr => Len(arrivals) = m

\* C6: of two chunks scheduled in one epoch, the one whose message arrived
\* first has the earlier start time.
C6_ArrivalOrder ==
    \A a \in DOMAIN nodes, b \in DOMAIN nodes :
        (a < b /\ SameEpoch(a, b)) => nodes[a].start < nodes[b].start

\* C7 as stated: nextStartTime decreases only in the step that handles an
\* interrupted signal.
C7_OnlyInterruptionLowers ==
    [][nextStartTime' < nextStartTime => gen' # gen]_vars

\* C7 as amended: nextStartTime decreases only in the step that handles an
\* interrupted signal, which sets it to 0, and in the step in which
\* initClient() runs initAudio(), which sets it to the clock.
C7_CursorLowered ==
    [][nextStartTime' < nextStartTime =>
          \/ gen' # gen /\ nextStartTime' = 0
          \/ timers' < timers /\ nextStartTime' = currentTime]_vars

\* initAudio() has lowered the cursor: with no interruption since a source
\* was scheduled, the cursor is before that source's end
C7_Witness ==
    \E s \in DOMAIN nodes :
        /\ nodes[s].gen = gen
        /\ nodes[s].rst < rst
        /\ nodes[s].start + nodes[s].dur > nextStartTime

\* C8: capture is active only while the session is open.
C8_CaptureOnlyWhileOpen ==
    isRecording => (session # 0 /\ isSessionInitialized)

\* C9: once the open session has errored during capture, sendRealtimeInput
\* is not called until a transport created by reset() has opened.
C9_NoSendAfterError ==
    [][sent' > sent => ~errPending]_vars

\* a callback of transport t runs in this step: onopen, onerror, onclose, or
\* the delivery of a message
CallbackOf(t) ==
    \/ transports[t] = "connecting" /\ transports'[t] = "open"
    \/ transports[t] # "errored" /\ transports'[t] = "errored"
    \/ transports[t] \in {"open", "errored", "closing"} /\ transports'[t] = "closed"
    \/ Len(arrivals') > Len(arrivals) /\ arrivals'[Len(arrivals')] = t

\* C10: a callback of a transport that reset() has replaced changes neither
\* the readiness flag, nor the status and error fields, nor nextStartTime,
\* nor the active-source set.
C10_StaleCallbacksIgnored ==
    [][(\E t \in replaced : CallbackOf(t)) =>
          UNCHANGED <<isSessionInitialized, status, error, nextStartTime,
                      sources>>]_vars

\* the transports that are connecting or open
Live == {t \in Transports : transports[t] \in {"connecting", "open"}}

\* C11: at most one transport is live (connecting or open) at any time.
C11_OneLiveTransport ==
    Cardinality(Live) <= 1

\* C12: when reset() returns, every source that was active has been
\* stopped, the active set is empty, capture is stopped and the transport
\* that was current is no longer live.
C12_ResetCancelsPlayback ==
    [][resets' > resets =>
          /\ sources' = {}
          /\ \A s \in sources : nodes'[s].st = "stopped"
          /\ ~isRecording'
          /\ session # 0 => session \notin Live']_vars

\* C13: once a transport made since the last reset() has errored, been
\* closed by the server or failed to connect, the readiness flag is false
\* until reset() is called.
C13_NoReopenWithoutReset ==
    left => ~isSessionInitialized

\* the steps in which an error event is handled
SendFailure == sent' > sent /\ used'.faults > used.faults

MicrophoneFailure ==
    \E r \in DOMAIN recordings :
        /\ recordings[r] = "gum"
        /\ r \notin DOMAIN recordings'
        /\ used'.faults > used.faults

DecodeFailure(m) ==
    /\ handlers[m].pc = "decode"
    /\ m \notin DOMAIN handlers'
    /\ m \notin DOMAIN nodes'

ConnectFailure ==
    \E t \in Transports : connects[t] = "pending" /\ connects'[t] = "rejected"

TransportError ==
    \E t \in Transports : transports[t] # "errored" /\ transports'[t] = "errored"

\* C14: when the handling of a send failure, a microphone failure, a decode
\* failure, a connect failure or a transport error has finished, the error
\* field is non-empty and is what is displayed.
C14_ErrorsShown ==
    [][(\/ SendFailure
        \/ MicrophoneFailure
        \/ \E m \in DOMAIN handlers : DecodeFailure(m)
        \/ ConnectFailure
        \/ TransportError) => (error' # "" /\ Displayed' = error')]_vars

\* C15: the step in which the send of a frame of processor p throws leaves
\* capture stopped, p detached and p's microphone stream released.
C15_SendFailureStopsCapture ==
    [][\A p \in processors :
          AudioProcess(p, TRUE) =>
              /\ ~isRecording'
              /\ p \notin processors'
              /\ p \notin tracks']_vars

\* C16: no startRecording() invocation made after a send has thrown, and
\* before reset() is called, has started capture.
C16_NoCaptureAfterSendFailure ==
    sendFailed # 0 => ~(isRecording /\ mediaStream >= sendFailed)

C18_NoSendAfterStop ==
    [][sent' > sent => ~stopped]_vars

\* C19: the reset() calls made in succession create one new transport: at
\* most one transport exists that the last reset() has not replaced.
C19_OneNewTransport ==
    Cardinality(Transports \ replaced) <= 1

\* C20: the step that handles an interrupted signal while the active set is
\* empty, and that schedules nothing, calls stop() on no source and leaves
\* the active set empty and nextStartTime at 0.
C20_SecondCancelNoEffect ==
    [][(gen' # gen /\ sources = {} /\ DOMAIN nodes' = DOMAIN nodes) =>
          /\ nodes' = nodes
          /\ sources' = {}
          /\ nextStartTime' = 0]_vars

\* two interrupted signals handled, the first of which stopped a source
C20_Witness ==
    /\ gen = 2
    /\ sources = {}
    /\ nextStartTime = 0
    /\ \E s \in DOMAIN nodes : nodes[s].stops = 1 /\ nodes[s].st = "stopped"

\* the sources in the order in which they were started
Before(a, b) == nodes[a].k < nodes[b].k

\* each chunk was scheduled when the one before it had not played out: it
\* starts where the one before it ends
BackToBack ==
    \A a \in DOMAIN nodes, b \in DOMAIN nodes :
        nodes[b].k = nodes[a].k + 1
            => nodes[b].start = nodes[a].start + nodes[a].dur

\* C21: when the Chunks chunks have been scheduled back to back, their start
\* times are strictly increasing and do not overlap, and nextStartTime is
\* the clock time at which the first source was started plus the Chunks
\* durations.
C21_ThreeChunks ==
    (Cardinality(DOMAIN nodes) = Chunks /\ DOMAIN handlers = {} /\ BackToBack)
        => /\ \A a \in DOMAIN nodes, b \in DOMAIN nodes :
                 Before(a, b) => nodes[a].start + nodes[a].dur <= nodes[b].start
           /\ \A a \in DOMAIN nodes :
                 nodes[a].k = 0 => nextStartTime = nodes[a].clk + Chunks * ChunkDur
\* C22: client.live.connect is called only in the step in which the timer
\* of a reset() runs initClient(): no other step, in particular no connect
\* failure, transport error or close, creates a transport.
C22_NoAutomaticRetry ==
    [][Len(transports') > Len(transports) =>
          (timers' < timers /\ Len(transports') <= 1 + resets)]_vars

\* the only connection has failed or ended, and no other has been made
C22_Witness ==
    /\ Len(transports) = 1
    /\ transports[1] = "closed"
    /\ used.faults > 0
    /\ timers = 0
\* C23: the step in which the 'ended' event of a source is handled removes
\* that source from the active set and nothing else, also when an
\* interruption has removed it already, and calls stop() on nothing; the
\* step that handles an interrupted signal leaves the sources that have
\* ended as they are; no source is ever stopped twice.
C23_IdempotentRemoval ==
    [][\A s \in DOMAIN nodes :
          /\ (~nodes[s].ended /\ nodes'[s].ended) =>
                /\ sources' = sources \ {s}
                /\ \A o \in DOMAIN nodes : nodes'[o].stops = nodes[o].stops
          /\ (nodes[s].ended /\ gen' # gen) => nodes'[s] = nodes[s]
          /\ nodes'[s].stops <= 1]_vars

\* the 'ended' event of a source that an interruption had stopped and
\* removed has been handled while another source was active
C23_Witness ==
    \E s \in DOMAIN nodes :
        /\ nodes[s].st = "stopped"
        /\ nodes[s].ended
        /\ sources # {}
\* C24: the step of reset() clears the session reference whether close()
\* returns or throws, leaves the transport that was current no longer live
\* when close() returns, creates no transport and schedules one
\* initClient(); and with a key, each scheduled initClient() eventually
\* creates a transport.
C24_ResetReconnects ==
    /\ [][resets' > resets =>
             /\ session' = 0
             /\ timers' = timers + 1
             /\ Len(transports') = Len(transports)
             /\ (session # 0 /\ used'.faults = used.faults)
                    => session \notin Live']_vars
    /\ \A n \in 0..(MaxResets + 1) :
          (apiKey /\ timers > 0 /\ Len(transports) = n) ~> (Len(transports) > n)

\* reset() has closed the current transport and the timer has made a new one
C24_Witness ==
    /\ session = 0
    /\ timers = 0
    /\ Transports \ replaced # {}
    /\ \E t \in replaced : transports[t] = "closing"
\* C25: the step that handles a failed getUserMedia leaves capture
\* inactive, attaches no frame callback, sends nothing, and leaves the
\* session reference, the readiness flag, nextStartTime and the active set
\* as they are.
C25_MicrophoneFailureContained ==
    [][MicrophoneFailure =>
          /\ ~isRecording'
          /\ processors' \subseteq processors
          /\ sent' = sent
          /\ UNCHANGED <<session, isSessionInitialized, nextStartTime,
                         sources>>]_vars

\* the microphone was refused while the session is open
C25_Witness ==
    /\ error = "Error: Failed to start recording"
    /\ ~isRecording
    /\ isSessionInitialized
    /\ session # 0

\* C26: at most one microphone stream and one script processor are acquired,
\* and every stream that has not been stopped is the one mediaStream
\* references.
C26_OneCapturePipeline ==
    /\ Cardinality(tracks) <= 1
    /\ Cardinality(processors) <= 1
    /\ \A r \in tracks : mediaStream = r
\* C27: every member of the active set is a source that was started and
\* has neither ended nor been stopped, and every source in the set is
\* eventually out of it.
C27_SourcesLeaveTheSet ==
    /\ [](\A s \in sources :
             /\ s \in DOMAIN nodes
             /\ nodes[s].st = "playing"
             /\ ~nodes[s].ended)
    /\ \A s \in 1..MaxMsgs : (s \in sources) ~> (s \notin sources)

\* a source has played out after the last observed clock time and its
\* 'ended' event has removed it; another was removed by an interruption
C27_Witness ==
    /\ sources = {}
    /\ currentTime > MaxTime
    /\ \E s \in DOMAIN nodes : nodes[s].st = "finished" /\ nodes[s].ended
    /\ \E s \in DOMAIN nodes : nodes[s].st = "stopped"

\* C28: the status field and the error field are never both non-empty.
C28_StatusOrError ==
    ~(status # "" /\ error # "")

\* an error has replaced a status
C28_Witness ==
    /\ error = "Error: Session error"
    /\ status = ""
    /\ \E t \in Transports : transports[t] = "errored"

==========================================================================
